---- MODULE Spec2Model ----
(***************************************************************************)
(* Model of src/src/db.rs: the sled-backed week counter (tree "weeks",     *)
(* key "current_week") and the per-IP visit markers (tree "clicks").       *)
(* Every Database method is run by a caller process; the methods that use  *)
(* a sled transaction are split into the reads and the commit of the       *)
(* transaction closure, so that concurrent callers interleave.             *)
(***************************************************************************)
EXTENDS Integers, Sequences, FiniteSets, TLC

\* ---------------------------------------------------------------- bounds
NumProcs == 2        \* concurrent callers
MaxCalls == 3        \* mutating calls (increments, resets) issued in one behaviour
MaxTime == 2         \* last clock reading
TicksPerDay == 2     \* clock readings per UTC calendar date
MaxInit == 1         \* largest week_count found in the store when it is opened
MaxFaults == 1       \* storage errors injected in one behaviour
MaxWeeks == 50       \* calculate_date_from_weeks is tried on 0..MaxWeeks

Procs == 1..NumProcs
Identities == {"A", "B"}
Times == 0..MaxTime

VARIABLES
    week_tree,     \* Option<bytes> under key "current_week": <<>> or <<bytes>>
    click_tree,    \* per identity, Option<string> under key "ip:<identity>"
    clock,         \* Utc::now()
    pc,            \* per caller: position inside the running method
    op,            \* per caller: the method that runs
    ip,            \* per caller: argument `ip`
    now,           \* per caller: local `now`
    snap,          \* per caller: what the transaction closure read from the tree; after
                   \* the commit, the record the closure stored (new_week_count)
    ret,           \* the value returned by the call the last step completed, if any
    C0,            \* history: week_count when the store was opened
    ncalls,        \* history: mutating calls issued
    nInc,          \* history: increment_week calls issued
    wasReset,      \* history: some reset_weeks ran
    faults,        \* history: storage errors injected
    retried,       \* history: some transaction met a conflict and ran again
    accLog,        \* history: per identity, `now` of each committed conditional increment
    overlap,       \* history: per identity, two of its calls were in flight together
    markFailed,    \* history: per identity, a write of its visit record failed
    nCond,         \* history: per identity, increment_week_with_ip_check calls issued
    resetFresh,    \* history: reset_weeks ran and no increment has committed since
    incRets,       \* history: the counts returned by increment_week so far
    weeks,         \* argument of calculate_date_from_weeks
    date           \* what calculate_date_from_weeks returned, None before the call

store == <<week_tree, click_tree>>
locals == <<pc, op, ip, now, snap>>
hist == <<C0, ncalls, nInc, wasReset, faults, retried, accLog, overlap, markFailed,
          nCond, resetFresh, incRets, weeks, date>>
vars == <<week_tree, click_tree, clock, pc, op, ip, now, snap, ret, C0, ncalls, nInc,
          wasReset, faults, retried, accLog, overlap, markFailed, nCond, resetFresh,
          incRets, weeks, date>>

\* ------------------------------------------------------- values and codecs
None == <<>>
Some(x) == <<x>>

\* struct WeekData
WeekData(c, t) == [week_count |-> c, last_click_time |-> t]

\* bincode::serialize(&WeekData): the u64, then the Option tag, then the payload
Serialize(data) ==
    IF data.last_click_time = None
    THEN <<data.week_count, 0>>
    ELSE <<data.week_count, 1, data.last_click_time[1]>>

\* bincode::deserialize::<WeekData>
Deserialize(bytes) ==
    WeekData(bytes[1], IF bytes[2] = 0 THEN None ELSE Some(bytes[3]))

\* DateTime<Utc>::date_naive
date_naive_utc(t) == t \div TicksPerDay

\* DateTime<Utc>::to_rfc3339: <<date, time of day, offset>>, offset +00:00
to_rfc3339(t) == <<t \div TicksPerDay, t % TicksPerDay, 0>>

\* DateTime::parse_from_rfc3339: a DateTime<FixedOffset>
parse_from_rfc3339(s) == [utc |-> s[1] * TicksPerDay + s[2] - s[3], off |-> s[3]]

\* DateTime<FixedOffset>::date_naive: the date in the value's own offset
date_naive(dt) == (dt.utc + dt.off) \div TicksPerDay

\* Result values handed back to the caller, tagged with the method returning
NoRet == [by |-> "none", kind |-> "none", n |-> 0, b |-> FALSE, d |-> None, err |-> "none"]
OkU64(m, n) == [by |-> m, kind |-> "u64", n |-> n, b |-> FALSE, d |-> None, err |-> "none"]
OkBool(m, b) == [by |-> m, kind |-> "bool", n |-> 0, b |-> b, d |-> None, err |-> "none"]
OkUnit(m) == [by |-> m, kind |-> "unit", n |-> 0, b |-> FALSE, d |-> None, err |-> "none"]
OkData(m, data) ==
    [by |-> m, kind |-> "data", n |-> data.week_count, b |-> FALSE,
     d |-> data.last_click_time, err |-> "none"]
\* Err(DbError::Sled), Err(DbError::Utf8), Err(DbError::DateParse)
ErrSled(m) == [by |-> m, kind |-> "err", n |-> 0, b |-> FALSE, d |-> None, err |-> "Sled"]
ErrUtf8(m) == [by |-> m, kind |-> "err", n |-> 0, b |-> FALSE, d |-> None, err |-> "Utf8"]
ErrDateParse(m) ==
    [by |-> m, kind |-> "err", n |-> 0, b |-> FALSE, d |-> None, err |-> "DateParse"]

\* ------------------------------------------------------------ pure pieces
\* get_week_count with a wrong default for an absent record
get_week_count_default_one(tree) ==
    IF tree # None THEN Deserialize(tree[1]).week_count ELSE 1

\* get_week_count's closure
get_week_count(tree) ==
    IF tree # None THEN Deserialize(tree[1]).week_count ELSE 0

\* get_week_data's closure
get_week_data(tree) ==
    IF tree # None THEN Deserialize(tree[1]) ELSE WeekData(0, None)

\* the dedup test never finding a marker
DedupHitNever(prev_click_bytes, t) == FALSE

\* the dedup test as a rolling 24-hour window instead of a date comparison
DedupHitRolling(prev_click_bytes, t) ==
    /\ prev_click_bytes # None
    /\ t - parse_from_rfc3339(prev_click_bytes[1]).utc < TicksPerDay

\* the dedup test of increment_week_with_ip_check on the stored marker
DedupHit(prev_click_bytes, t) ==
    /\ prev_click_bytes # None
    /\ date_naive(parse_from_rfc3339(prev_click_bytes[1])) = date_naive_utc(t)

\* the closure stamping last_click_time in both methods
TxnBodyAlwaysStamp(value, method, t) ==
    LET data == IF value # None THEN Deserialize(value[1]) ELSE WeekData(0, None)
    IN  WeekData(data.week_count + 1, Some(t))

\* the transaction closure: the record it inserts, from the value it read
TxnBody(value, method, t) ==
    LET data == IF value # None THEN Deserialize(value[1]) ELSE WeekData(0, None)
    IN  WeekData(data.week_count + 1,
                 IF method = "increment_week_with_ip_check" THEN Some(t)
                 ELSE data.last_click_time)

InFlight(p) == pc[p] # "idle"

\* ------------------------------------------- calculate_date_from_weeks
\* 64-bit and wider integers are little-endian sequences of 16-bit limbs
LimbBase == 2 ^ 16
NumLimbs == 6
Limbs == 1..NumLimbs

\* an integer literal below 2^31 as limbs
FromNat(n) ==
    [k \in Limbs |-> IF k = 1 THEN n % LimbBase ELSE IF k = 2 THEN n \div LimbBase ELSE 0]

RECURSIVE LessFrom(_, _, _)
LessFrom(x, y, k) ==
    IF k = 0 THEN FALSE
    ELSE IF x[k] # y[k] THEN x[k] < y[k]
    ELSE LessFrom(x, y, k - 1)

\* x < y
Less(x, y) == LessFrom(x, y, NumLimbs)

RECURSIVE CarryAdd(_, _, _)
CarryAdd(x, y, k) ==
    IF k = 1 THEN 0 ELSE (x[k - 1] + y[k - 1] + CarryAdd(x, y, k - 1)) \div LimbBase

\* x + y
Add(x, y) == [k \in Limbs |-> (x[k] + y[k] + CarryAdd(x, y, k)) % LimbBase]

RECURSIVE BorrowSub(_, _, _)
BorrowSub(x, y, k) ==
    IF k = 1 THEN 0
    ELSE IF x[k - 1] - y[k - 1] - BorrowSub(x, y, k - 1) < 0 THEN 1 ELSE 0

\* x - y, for y <= x
Sub(x, y) ==
    [k \in Limbs |-> (LimbBase + x[k] - y[k] - BorrowSub(x, y, k)) % LimbBase]

RECURSIVE CarryMul(_, _, _)
CarryMul(x, m, k) ==
    IF k = 1 THEN 0 ELSE (x[k - 1] * m + CarryMul(x, m, k - 1)) \div LimbBase

\* x * m, for a factor m below 2^15
MulSmall(x, m) == [k \in Limbs |-> (x[k] * m + CarryMul(x, m, k)) % LimbBase]

\* 2^63 and 2^64
TwoTo63 == <<0, 0, 0, 32768, 0, 0>>
TwoTo64 == <<0, 0, 0, 0, 1, 0>>

\* `weeks as i64`: two's complement reinterpretation, as sign and magnitude
as_i64(w) ==
    IF Less(w, TwoTo63) THEN [neg |-> FALSE, mag |-> w]
    ELSE [neg |-> TRUE, mag |-> Sub(TwoTo64, w)]

\* what an expression evaluates to: an integer, or a panic
Value(neg, mag) == [panic |-> FALSE, neg |-> neg, mag |-> mag]
Panic == [panic |-> TRUE, neg |-> FALSE, mag |-> FromNat(0)]

\* chrono's Duration::MAX in seconds, i64::MAX / 1000 = 9223372036854775
DurationMaxSecs == <<21495, 42467, 50331, 32, 0, 0>>

\* chrono's DateTime::<Utc>::MAX_UTC and MIN_UTC as Unix timestamps:
\* 8210266876799 and -8334601315200
MaxTimestamp == <<27519, 39434, 1911, 0, 0, 0>>
MinTimestampMag == <<25472, 36083, 1940, 0, 0, 0>>

\* a duration of days instead of weeks
Duration_days(w) ==
    LET secs == MulSmall(MulSmall(w.mag, 24), 3600)
    IN  IF Less(DurationMaxSecs, secs) THEN Panic ELSE Value(w.neg, secs)

\* Duration::weeks: weeks * 604800 seconds, panics when out of bounds
Duration_weeks(w) ==
    LET secs == MulSmall(MulSmall(w.mag, 7 * 24), 3600)
    IN  IF Less(DurationMaxSecs, secs) THEN Panic ELSE Value(w.neg, secs)

\* DateTime<Utc> + Duration on Unix timestamps, panics on overflow
DateTimeAdd(t, d) ==
    IF ~d.neg
    THEN LET sum == Add(t, d.mag)
         IN  IF Less(MaxTimestamp, sum) THEN Panic ELSE Value(FALSE, sum)
    ELSE IF ~Less(t, d.mag)
    THEN Value(FALSE, Sub(t, d.mag))
    ELSE LET m == Sub(d.mag, t)
         IN  IF Less(MinTimestampMag, m) THEN Panic ELSE Value(TRUE, m)

\* DateTime::<Utc>::from_timestamp(1704067200, 0).unwrap()
BaseTimestamp == 1704067200
base_time == FromNat(BaseTimestamp)

\* calculate_date_from_weeks: the Unix timestamp of the result, or a panic
calculate_date_from_weeks(w) ==
    LET weeks_duration == Duration_weeks(as_i64(w))
    IN  IF weeks_duration.panic THEN Panic ELSE DateTimeAdd(base_time, weeks_duration)

\* the u64 arguments tried: 0..MaxWeeks and the values around each limit
U64Max == Sub(TwoTo64, FromNat(1))
LastWeeksInRange == FromNat(13572359)
LastWeeksInDuration == <<57252, 36092, 3, 0, 0, 0>>
FirstWeeksBackInRange == Sub(TwoTo64, FromNat(13783573))
DateInputs ==
    {FromNat(n) : n \in 0..MaxWeeks}
    \cup {LastWeeksInRange, Add(LastWeeksInRange, FromNat(1)),
          LastWeeksInDuration, Add(LastWeeksInDuration, FromNat(1)),
          Sub(TwoTo63, FromNat(1)), TwoTo63,
          Sub(TwoTo64, Add(LastWeeksInDuration, FromNat(1))),
          Sub(TwoTo64, LastWeeksInDuration),
          Sub(FirstWeeksBackInRange, FromNat(1)), FirstWeeksBackInRange,
          Sub(U64Max, FromNat(1)), U64Max}

\* ------------------------------------------------------------------- Init
DbInit ==
    /\ C0 \in 0..MaxInit
    /\ week_tree = IF C0 = 0 THEN None ELSE Some(Serialize(WeekData(C0, None)))
    /\ click_tree = [i \in Identities |-> None]
    /\ clock = 0
    /\ pc = [p \in Procs |-> "idle"]
    /\ op = [p \in Procs |-> "none"]
    /\ ip = [p \in Procs |-> "A"]
    /\ now = [p \in Procs |-> 0]
    /\ snap = [p \in Procs |-> None]
    /\ ret = NoRet
    /\ ncalls = 0
    /\ nInc = 0
    /\ wasReset = FALSE
    /\ faults = 0
    /\ retried = FALSE
    /\ accLog = [i \in Identities |-> <<>>]
    /\ overlap = [i \in Identities |-> FALSE]
    /\ markFailed = [i \in Identities |-> FALSE]
    /\ nCond = [i \in Identities |-> 0]
    /\ resetFresh = FALSE
    /\ incRets = {}

\* the service never calls calculate_date_from_weeks: its variables stay put
Init ==
    /\ DbInit
    /\ weeks = FromNat(0)
    /\ date = None

\* a caller of calculate_date_from_weeks with some u64 argument
InitDate ==
    /\ DbInit
    /\ weeks \in DateInputs
    /\ date = None

\* ---------------------------------------------------------------- actions
\* the wall clock advances
Tick ==
    /\ clock < MaxTime
    /\ clock' = clock + 1
    /\ ret' = NoRet
    /\ UNCHANGED <<store, locals, hist>>

\* a caller leaves a method with result r: its locals are dropped
Finish(p, r) ==
    /\ pc' = [pc EXCEPT ![p] = "idle"]
    /\ op' = [op EXCEPT ![p] = "none"]
    /\ ip' = [ip EXCEPT ![p] = "A"]
    /\ now' = [now EXCEPT ![p] = 0]
    /\ snap' = [snap EXCEPT ![p] = None]
    /\ ret' = r

\* get_week_count
GetWeekCount(p) ==
    /\ pc[p] = "idle"
    /\ Finish(p, OkU64("get_week_count", get_week_count(week_tree)))
    /\ UNCHANGED <<store, clock, hist>>

\* get_week_data
GetWeekData(p) ==
    /\ pc[p] = "idle"
    /\ Finish(p, OkData("get_week_data", get_week_data(week_tree)))
    /\ UNCHANGED <<store, clock, hist>>

\* reset_weeks clearing the visit records along with the counter record
ResetWeeksClearVisits(p) ==
    /\ pc[p] = "idle" /\ ncalls < MaxCalls
    /\ ncalls' = ncalls + 1
    /\ week_tree' = None
    /\ click_tree' = [i \in Identities |-> None]
    /\ wasReset' = TRUE
    /\ resetFresh' = TRUE
    /\ Finish(p, OkUnit("reset_weeks"))
    /\ UNCHANGED <<clock, C0, nInc, faults, retried, accLog, overlap, markFailed,
                   nCond, incRets, weeks, date>>

\* reset_weeks flushing without removing the key
ResetWeeksFlushOnly(p) ==
    /\ pc[p] = "idle" /\ ncalls < MaxCalls
    /\ ncalls' = ncalls + 1
    /\ week_tree' = week_tree
    /\ wasReset' = TRUE
    /\ resetFresh' = TRUE
    /\ Finish(p, OkUnit("reset_weeks"))
    /\ UNCHANGED <<click_tree, clock, C0, nInc, faults, retried, accLog, overlap, markFailed,
                   nCond, incRets, weeks, date>>

\* reset_weeks: remove the key, then flush
ResetWeeks(p) ==
    /\ pc[p] = "idle" /\ ncalls < MaxCalls
    /\ ncalls' = ncalls + 1
    /\ week_tree' = None
    /\ wasReset' = TRUE
    /\ resetFresh' = TRUE
    /\ Finish(p, OkUnit("reset_weeks"))
    /\ UNCHANGED <<click_tree, clock, C0, nInc, faults, retried, accLog, overlap, markFailed,
                   nCond, incRets, weeks, date>>

\* flush_async: forces pending writes to disk; the trees' contents stay
FlushAsync(p) ==
    /\ pc[p] = "idle"
    /\ Finish(p, OkUnit("flush_async"))
    /\ UNCHANGED <<store, clock, hist>>

\* increment_week is called: the blocking task is spawned
CallIncrementWeek(p) ==
    /\ pc[p] = "idle" /\ ncalls < MaxCalls
    /\ ncalls' = ncalls + 1
    /\ nInc' = nInc + 1
    /\ op' = [op EXCEPT ![p] = "increment_week"]
    /\ pc' = [pc EXCEPT ![p] = "txn"]
    /\ ret' = NoRet
    /\ UNCHANGED <<store, clock, ip, now, snap, C0, wasReset, faults, retried, accLog,
                   overlap, markFailed, nCond, resetFresh, incRets, weeks, date>>

\* increment_week_with_ip_check is called: `now` is read, the task is spawned
CallIncrementWithIpCheck(p, i) ==
    /\ pc[p] = "idle" /\ ncalls < MaxCalls
    /\ ncalls' = ncalls + 1
    /\ op' = [op EXCEPT ![p] = "increment_week_with_ip_check"]
    /\ ip' = [ip EXCEPT ![p] = i]
    /\ now' = [now EXCEPT ![p] = clock]
    /\ pc' = [pc EXCEPT ![p] = "check"]
    /\ overlap' = [overlap EXCEPT ![i] =
                      @ \/ \E q \in Procs \ {p} :
                              /\ InFlight(q)
                              /\ op[q] = "increment_week_with_ip_check"
                              /\ ip[q] = i]
    /\ nCond' = [nCond EXCEPT ![i] = @ + 1]
    /\ ret' = NoRet
    /\ UNCHANGED <<store, clock, snap, C0, nInc, wasReset, faults, retried, accLog,
                   markFailed, resetFresh, incRets, weeks, date>>

\* the dedup check refreshing the visit time of an identity it rejects
IpCheckRefresh(p) ==
    /\ pc[p] = "check"
    /\ IF DedupHit(click_tree[ip[p]], now[p])
       THEN /\ Finish(p, OkBool(op[p], FALSE))
            /\ click_tree' = [click_tree EXCEPT ![ip[p]] = Some(to_rfc3339(now[p]))]
       ELSE /\ pc' = [pc EXCEPT ![p] = "txn"]
            /\ ret' = NoRet
            /\ UNCHANGED <<op, ip, now, snap, click_tree>>
    /\ UNCHANGED <<week_tree, clock, hist>>

\* the dedup check: click_tree.get succeeded
IpCheck(p) ==
    /\ pc[p] = "check"
    /\ IF DedupHit(click_tree[ip[p]], now[p])
       THEN Finish(p, OkBool(op[p], FALSE))
       ELSE /\ pc' = [pc EXCEPT ![p] = "txn"]
            /\ ret' = NoRet
            /\ UNCHANGED <<op, ip, now, snap>>
    /\ UNCHANGED <<store, clock, hist>>

\* the dedup check: click_tree.get returned a storage error
IpCheckErr(p) ==
    /\ pc[p] = "check" /\ faults < MaxFaults
    /\ faults' = faults + 1
    /\ Finish(p, ErrSled(op[p]))
    /\ UNCHANGED <<store, clock, C0, ncalls, nInc, wasReset, retried, accLog, overlap,
                   markFailed, nCond, resetFresh, incRets, weeks, date>>

\* the dedup check: the stored visit record is not valid UTF-8
IpCheckUtf8Err(p) ==
    /\ pc[p] = "check" /\ faults < MaxFaults
    /\ click_tree[ip[p]] # None
    /\ faults' = faults + 1
    /\ Finish(p, ErrUtf8(op[p]))
    /\ UNCHANGED <<store, clock, C0, ncalls, nInc, wasReset, retried, accLog, overlap,
                   markFailed, nCond, resetFresh, incRets, weeks, date>>

\* the dedup check discarding a visit record it cannot parse
IpCheckDateParseErrDiscards(p) ==
    /\ pc[p] = "check" /\ faults < MaxFaults
    /\ click_tree[ip[p]] # None
    /\ faults' = faults + 1
    /\ click_tree' = [click_tree EXCEPT ![ip[p]] = None]
    /\ Finish(p, ErrDateParse(op[p]))
    /\ UNCHANGED <<week_tree, clock, C0, ncalls, nInc, wasReset, retried, accLog, overlap,
                   markFailed, nCond, resetFresh, incRets, weeks, date>>

\* the dedup check: the stored visit record is not an RFC 3339 time
IpCheckDateParseErr(p) ==
    /\ pc[p] = "check" /\ faults < MaxFaults
    /\ click_tree[ip[p]] # None
    /\ faults' = faults + 1
    /\ Finish(p, ErrDateParse(op[p]))
    /\ UNCHANGED <<store, clock, C0, ncalls, nInc, wasReset, retried, accLog, overlap,
                   markFailed, nCond, resetFresh, incRets, weeks, date>>

\* the transaction closure runs: it reads the key
TxnRead(p) ==
    /\ pc[p] = "txn"
    /\ snap' = [snap EXCEPT ![p] = week_tree]
    /\ pc' = [pc EXCEPT ![p] = "commit"]
    /\ ret' = NoRet
    /\ UNCHANGED <<store, clock, op, ip, now, hist>>

\* a commit that does not validate what the closure read (no retry)
TxnCommitNoValidate(p) ==
    /\ pc[p] = "commit"
    /\ LET data == TxnBody(snap[p], op[p], now[p]) IN
            /\ week_tree' = Some(Serialize(data))
            /\ resetFresh' = FALSE
            /\ IF op[p] = "increment_week"
               THEN /\ Finish(p, OkU64(op[p], data.week_count))
                    /\ incRets' = incRets \cup {data.week_count}
                    /\ UNCHANGED <<accLog, retried>>
               ELSE /\ pc' = [pc EXCEPT ![p] = "mark"]
                    /\ snap' = [snap EXCEPT ![p] = Some(Serialize(data))]
                    /\ accLog' = [accLog EXCEPT ![ip[p]] = Append(@, now[p])]
                    /\ ret' = NoRet
                    /\ UNCHANGED <<op, ip, now, retried, incRets>>
    /\ UNCHANGED <<click_tree, clock, C0, ncalls, nInc, wasReset, faults, overlap, markFailed,
                   nCond, weeks, date>>

\* a commit that hands a conflict to the caller as an error instead of retrying
TxnCommitConflictErr(p) ==
    /\ pc[p] = "commit"
    /\ IF week_tree = snap[p]
       THEN LET data == TxnBody(snap[p], op[p], now[p]) IN
            /\ week_tree' = Some(Serialize(data))
            /\ resetFresh' = FALSE
            /\ IF op[p] = "increment_week"
               THEN /\ Finish(p, OkU64(op[p], data.week_count))
                    /\ incRets' = incRets \cup {data.week_count}
                    /\ UNCHANGED <<accLog, retried>>
               ELSE /\ pc' = [pc EXCEPT ![p] = "mark"]
                    /\ snap' = [snap EXCEPT ![p] = Some(Serialize(data))]
                    /\ accLog' = [accLog EXCEPT ![ip[p]] = Append(@, now[p])]
                    /\ ret' = NoRet
                    /\ UNCHANGED <<op, ip, now, retried, incRets>>
       ELSE /\ Finish(p, ErrSled(op[p]))
            /\ retried' = TRUE
            /\ UNCHANGED <<week_tree, accLog, resetFresh, incRets>>
    /\ UNCHANGED <<click_tree, clock, C0, ncalls, nInc, wasReset, faults, overlap, markFailed,
                   nCond, weeks, date>>

\* the transaction storing the increment of the current value while handing
\* back the count computed by the attempt that read the snapshot
TxnCommitStaleReturn(p) ==
    /\ pc[p] = "commit"
    /\ LET data == TxnBody(week_tree, op[p], now[p])
           stale == TxnBody(snap[p], op[p], now[p]) IN
       /\ week_tree' = Some(Serialize(data))
       /\ resetFresh' = FALSE
       /\ retried' = (retried \/ week_tree # snap[p])
       /\ IF op[p] = "increment_week"
          THEN /\ Finish(p, OkU64(op[p], stale.week_count))
               /\ incRets' = incRets \cup {stale.week_count}
               /\ UNCHANGED accLog
          ELSE /\ pc' = [pc EXCEPT ![p] = "mark"]
               /\ snap' = [snap EXCEPT ![p] = Some(Serialize(data))]
               /\ accLog' = [accLog EXCEPT ![ip[p]] = Append(@, now[p])]
               /\ ret' = NoRet
               /\ UNCHANGED <<op, ip, now, incRets>>
    /\ UNCHANGED <<click_tree, clock, C0, ncalls, nInc, wasReset, faults, overlap, markFailed,
                   nCond, weeks, date>>

\* the transaction ends: it commits when the key is as the closure read it,
\* and runs the closure again on a conflict
TxnCommit(p) ==
    /\ pc[p] = "commit"
    /\ IF week_tree = snap[p]
       THEN LET data == TxnBody(snap[p], op[p], now[p]) IN
            /\ week_tree' = Some(Serialize(data))
            /\ resetFresh' = FALSE
            /\ IF op[p] = "increment_week"
               THEN /\ Finish(p, OkU64(op[p], data.week_count))
                    /\ incRets' = incRets \cup {data.week_count}
                    /\ UNCHANGED <<accLog, retried>>
               ELSE /\ pc' = [pc EXCEPT ![p] = "mark"]
                    /\ snap' = [snap EXCEPT ![p] = Some(Serialize(data))]
                    /\ accLog' = [accLog EXCEPT ![ip[p]] = Append(@, now[p])]
                    /\ ret' = NoRet
                    /\ UNCHANGED <<op, ip, now, retried, incRets>>
       ELSE /\ pc' = [pc EXCEPT ![p] = "txn"]
            /\ snap' = [snap EXCEPT ![p] = None]
            /\ retried' = TRUE
            /\ ret' = NoRet
            /\ UNCHANGED <<week_tree, accLog, op, ip, now, resetFresh, incRets>>
    /\ UNCHANGED <<click_tree, clock, C0, ncalls, nInc, wasReset, faults, overlap, markFailed,
                   nCond, weeks, date>>

\* the closure cannot deserialize the record it read and aborts the
\* transaction: TransactionError::Abort, nothing is written
TxnAbort(p) ==
    /\ pc[p] = "commit" /\ faults < MaxFaults
    /\ snap[p] # None
    /\ faults' = faults + 1
    /\ Finish(p, ErrSled(op[p]))
    /\ UNCHANGED <<store, clock, C0, ncalls, nInc, wasReset, retried, accLog, overlap,
                   markFailed, nCond, resetFresh, incRets, weeks, date>>

\* the transaction returns TransactionError::Storage
TxnStorageErr(p) ==
    /\ pc[p] \in {"txn", "commit"} /\ faults < MaxFaults
    /\ faults' = faults + 1
    /\ Finish(p, ErrSled(op[p]))
    /\ UNCHANGED <<store, clock, C0, ncalls, nInc, wasReset, retried, accLog, overlap,
                   markFailed, nCond, resetFresh, incRets, weeks, date>>

\* the call returning after the commit without writing the visit time
IpInsertNoWrite(p) ==
    /\ pc[p] = "mark"
    /\ Finish(p, OkBool(op[p], Deserialize(snap[p][1]).week_count > 0))
    /\ UNCHANGED <<store, clock, hist>>

\* after the commit: the visit time is written, then Ok(new_week_count > 0)
IpInsert(p) ==
    /\ pc[p] = "mark"
    /\ click_tree' = [click_tree EXCEPT ![ip[p]] = Some(to_rfc3339(now[p]))]
    /\ Finish(p, OkBool(op[p], Deserialize(snap[p][1]).week_count > 0))
    /\ UNCHANGED <<week_tree, clock, hist>>

\* after the commit: click_tree.insert returns a storage error, `?` returns it
IpInsertErr(p) ==
    /\ pc[p] = "mark" /\ faults < MaxFaults
    /\ faults' = faults + 1
    /\ markFailed' = [markFailed EXCEPT ![ip[p]] = TRUE]
    /\ Finish(p, ErrSled(op[p]))
    /\ UNCHANGED <<store, clock, C0, ncalls, nInc, wasReset, retried, accLog, overlap,
                   nCond, resetFresh, incRets, weeks, date>>

Next ==
    \/ Tick
    \/ \E p \in Procs : GetWeekCount(p)
    \/ \E p \in Procs : GetWeekData(p)
    \/ \E p \in Procs : ResetWeeks(p)
    \/ \E p \in Procs : FlushAsync(p)
    \/ \E p \in Procs : CallIncrementWeek(p)
    \/ \E p \in Procs, i \in Identities : CallIncrementWithIpCheck(p, i)
    \/ \E p \in Procs : IpCheck(p)
    \/ \E p \in Procs : IpCheckErr(p)
    \/ \E p \in Procs : IpCheckUtf8Err(p)
    \/ \E p \in Procs : IpCheckDateParseErr(p)
    \/ \E p \in Procs : TxnRead(p)
    \/ \E p \in Procs : TxnCommit(p)
    \/ \E p \in Procs : TxnAbort(p)
    \/ \E p \in Procs : TxnStorageErr(p)
    \/ \E p \in Procs : IpInsert(p)
    \/ \E p \in Procs : IpInsertErr(p)

Spec == Init /\ [][Next]_vars

\* calculate_date_from_weeks is called and returns or panics
CalculateDate ==
    /\ date = None
    /\ date' = Some(calculate_date_from_weeks(weeks))
    /\ UNCHANGED <<store, clock, locals, ret, C0, ncalls, nInc, wasReset, faults, retried,
                   accLog, overlap, markFailed, nCond, resetFresh, incRets, weeks>>

NextDate == CalculateDate

SpecDate == InitDate /\ [][NextDate]_vars

\* ------------------------------------------------------------ properties
StoredCount == get_week_count(week_tree)
LastClick == get_week_data(week_tree).last_click_time
AllIdle == \A p \in Procs : ~InFlight(p)
Dates == 0..(MaxTime \div TicksPerDay)
Conditional == "increment_week_with_ip_check"

\* how many conditional increments of identity i with date d have committed
AccOn(i, d) == Cardinality({k \in 1..Len(accLog[i]) : date_naive_utc(accLog[i][k]) = d})

\* C1: when only unconditional increments ran (no reset, no conditional
\* increment, no storage error) and all of them have returned, the stored count
\* is the starting count plus the number of increments issued: none is lost,
\* whatever the interleaving of their transactions.
C1_NoLostUpdate ==
    (/\ AllIdle
     /\ ~wasReset
     /\ faults = 0
     /\ \A i \in Identities : accLog[i] = <<>>)
    => StoredCount = C0 + nInc

\* two or more increments ran, one of them met a conflict, and all returned
C1_Witness ==
    /\ AllIdle /\ ~wasReset /\ faults = 0 /\ retried
    /\ \A i \in Identities : accLog[i] = <<>>
    /\ nInc >= 2
    /\ StoredCount = C0 + nInc

\* C2: when the calls of an identity do not overlap and no storage error
\* occurs, every call of the identity that returns leaves exactly one accepted
\* increment for the UTC date of that call: a call that finds today's marker
\* returns false and adds nothing, a call on a new date is accepted, increases
\* the count by one and returns true, however close in time it is to the
\* previous accepted call.
C2_DateGating ==
    [][\A p \in Procs :
          /\ (/\ pc[p] \in {"check", "mark"} /\ pc'[p] = "idle"
              /\ faults' = 0 /\ ~overlap[ip[p]])
             => /\ AccOn(ip[p], date_naive_utc(now[p])) = 1
                /\ accLog' = accLog
                /\ ret' = OkBool(Conditional, pc[p] = "mark")
          /\ (/\ pc[p] = "commit" /\ pc'[p] = "mark")
             => /\ get_week_count(week_tree') = StoredCount + 1
                /\ Len(accLog'[ip[p]]) = Len(accLog[ip[p]]) + 1
      ]_vars

\* identity A: accepted on one date, rejected once, accepted again on the next
\* date less than a day after the first accepted call
C2_Witness ==
    /\ AllIdle /\ faults = 0 /\ ~overlap["A"] /\ ~wasReset
    /\ ncalls = 3 /\ nInc = 0 /\ accLog["B"] = <<>>
    /\ Len(accLog["A"]) = 2
    /\ date_naive_utc(accLog["A"][2]) = date_naive_utc(accLog["A"][1]) + 1
    /\ accLog["A"][2] - accLog["A"][1] < TicksPerDay
    /\ StoredCount = C0 + 2

\* C3 as stated: in every reachable state, for every identity and date, at
\* most one conditional increment of that identity on that date was accepted.
C3_Original ==
    \A i \in Identities, d \in Dates : AccOn(i, d) <= 1

\* C3 as amended: at most one conditional increment per identity and date is
\* accepted as long as no two calls of the identity were in flight together and
\* no write of the identity's visit record failed.
C3_AtMostOncePerDay ==
    \A i \in Identities :
        (~overlap[i] /\ ~markFailed[i]) => \A d \in Dates : AccOn(i, d) <= 1

\* an identity was accepted once and its next call, after that, was rejected
C3_Witness ==
    /\ ret = OkBool(Conditional, FALSE)
    /\ \E i \in Identities :
          /\ ~overlap[i] /\ ~markFailed[i]
          /\ Len(accLog[i]) = 1
          /\ \A j \in Identities \ {i} : accLog[j] = <<>>

\* C4 as stated: no step of any operation decreases the stored count.
C4_Original ==
    [][get_week_count(week_tree') >= StoredCount]_vars

\* C4 as amended: no step of any operation other than reset_weeks decreases
\* the stored count.
C4_NonDecreasing ==
    [][(\E p \in Procs : ResetWeeks(p)) \/ get_week_count(week_tree') >= StoredCount]_vars

\* the count was reset and has grown again past one
C4_Witness ==
    wasReset /\ StoredCount >= 2

\* C5: every write of the counter record stores a last_click_time that is not
\* earlier than the one it replaces.
C5_LastClickMonotone ==
    [][(LastClick # None /\ get_week_data(week_tree').last_click_time # None)
          => get_week_data(week_tree').last_click_time[1] >= LastClick[1]]_vars

\* C6: once the counter transaction has committed, the call returns true,
\* whether or not the write of the visit record succeeds.
C6_TrueAfterCommit ==
    [][\A p \in Procs :
          (pc[p] = "mark" /\ pc'[p] = "idle") => ret' = OkBool(Conditional, TRUE)]_vars

\* C7: a dedup check that reads a visit record of today's date returns false
\* and leaves the counter record and every visit record as they were.
C7_RejectChangesNothing ==
    [][\A p \in Procs :
          (/\ pc[p] = "check" /\ pc'[p] # "check"
           /\ faults' = faults
           /\ DedupHit(click_tree[ip[p]], now[p]))
          => /\ ret' = OkBool(Conditional, FALSE)
             /\ pc'[p] = "idle"
             /\ week_tree' = week_tree
             /\ click_tree' = click_tree
      ]_vars

\* a call was rejected later on the day of the identity's accepted call
C7_Witness ==
    /\ ret = OkBool(Conditional, FALSE)
    /\ clock % TicksPerDay # 0
    /\ \E i \in Identities : click_tree[i] # None /\ Len(accLog[i]) = 1

\* C8: a committing increment_week raises the count by exactly one, returns the
\* new count and leaves last_click_time and the visit records alone; a step
\* that stores a new last_click_time is the commit of a conditional increment.
C8_IncrementFrame ==
    [][/\ \A p \in Procs :
             (/\ pc[p] = "commit" /\ op[p] = "increment_week"
              /\ pc'[p] = "idle" /\ faults' = faults)
             => /\ get_week_count(week_tree') = StoredCount + 1
                /\ ret' = OkU64("increment_week", get_week_count(week_tree'))
                /\ get_week_data(week_tree').last_click_time = LastClick
                /\ click_tree' = click_tree
       /\ (/\ get_week_data(week_tree').last_click_time # LastClick
           /\ get_week_data(week_tree').last_click_time # None)
          => \E p \in Procs :
                 /\ op[p] = Conditional
                 /\ pc[p] = "commit" /\ pc'[p] = "mark"
      ]_vars

\* an increment_week has just returned the count, with a last_click_time
\* stored by an earlier conditional increment still in place
C8_Witness ==
    /\ ret = OkU64("increment_week", StoredCount)
    /\ LastClick # None
    /\ StoredCount >= 2

C10_ReadsAgree ==
    [][/\ (ret'.by = "get_week_count")
          => /\ ret'.n = get_week_data(week_tree).week_count
             /\ (week_tree = None => ret'.n = 0)
             /\ week_tree' = week_tree /\ click_tree' = click_tree
       /\ (ret'.by = "get_week_data")
          => /\ ret'.n = get_week_count(week_tree)
             /\ (week_tree = None => ret'.n = 0 /\ ret'.d = None)
             /\ week_tree' = week_tree /\ click_tree' = click_tree
      ]_vars

\* get_week_count returns a count of two or more from a record with a time
C10_Witness ==
    /\ ret.by = "get_week_count" /\ ret.n >= 2
    /\ LastClick # None
    /\ ret.n = get_week_data(week_tree).week_count

\* C11: once reset_weeks has completed and until an increment commits, the
\* stored count is 0 with no last click time, and every get_week_count and
\* get_week_data that completes returns exactly that.
C11_ResetReadsZero ==
    resetFresh =>
        /\ get_week_count(week_tree) = 0
        /\ get_week_data(week_tree) = WeekData(0, None)
        /\ ret.by = "get_week_count" => ret = OkU64("get_week_count", 0)
        /\ ret.by = "get_week_data" => ret = OkData("get_week_data", WeekData(0, None))

\* a read returned the zero record after a reset that removed a record
\* holding a positive count and a last click time
C11_Witness ==
    /\ resetFresh
    /\ ret = OkData("get_week_data", WeekData(0, None))
    /\ \E i \in Identities : accLog[i] # <<>>

\* C12: a reset_weeks step removes the counter record and leaves every visit
\* record as it was; and after a reset, the dedup check of an identity that was
\* accepted on the date of the call (no overlapping call of that identity, no
\* failed marker write, no storage error in the check) returns false and
\* leaves both trees alone, so the count stays 0 while no increment has
\* committed since the reset.
C12_ResetKeepsVisits ==
    [][/\ ret'.by = "reset_weeks" => (click_tree' = click_tree /\ week_tree' = None)
       /\ \A p \in Procs :
            (/\ pc[p] = "check" /\ pc'[p] # "check" /\ ret'.kind # "err"
             /\ wasReset
             /\ ~overlap[ip[p]] /\ ~markFailed[ip[p]]
             /\ AccOn(ip[p], date_naive_utc(now[p])) >= 1)
            => /\ ret' = OkBool(Conditional, FALSE)
               /\ UNCHANGED store
               /\ resetFresh => get_week_count(week_tree') = 0]_vars

\* an identity accepted before the reset is rejected after it, count still 0
C12_Witness ==
    /\ resetFresh
    /\ ret = OkBool(Conditional, FALSE)
    /\ get_week_count(week_tree) = 0
    /\ \E i \in Identities :
          /\ Len(accLog[i]) = 1 /\ nCond[i] = 2
          /\ click_tree[i] = Some(to_rfc3339(accLog[i][1]))

\* the runs C13 is about: empty store at the start, no reset, no storage error,
\* the clock still on the first date, and no two calls of one identity ever in
\* flight together (every sequential run is such a run)
C13_Runs ==
    /\ C0 = 0 /\ ~wasReset /\ faults = 0
    /\ date_naive_utc(clock) = 0
    /\ \A i \in Identities : ~overlap[i]

\* C13: in such a run, whenever no call is in flight the count is the number of
\* unconditional increments plus the number of identities that have called the
\* conditional increment, and a conditional call returns true exactly when it
\* is the first conditional call of its identity.
C13_SequentialCounts ==
    [][C13_Runs' =>
        /\ AllIdle' =>
              get_week_count(week_tree') =
                  nInc' + Cardinality({i \in Identities : nCond'[i] > 0})
        /\ \A p \in Procs :
              (op[p] = Conditional /\ pc'[p] = "idle")
              => ret' = OkBool(Conditional, nCond[ip[p]] = 1)]_vars

\* A accepted, A rejected, then one unconditional increment: count 2
C13_Witness ==
    /\ C13_Runs /\ AllIdle /\ ~retried
    /\ nCond["A"] = 2 /\ nCond["B"] = 0 /\ nInc = 1
    /\ Len(accLog["A"]) = 1
    /\ ret = OkU64("increment_week", 2)

\* the number of conditional calls issued so far, over all identities
CondCalls == nCond["A"] + nCond["B"]

\* the runs C16 is about: every conditional call comes from another identity
\* (none has a visit record, the visit tree starts empty), no reset, no storage
\* error; the calls may overlap each other and unconditional increments
C16_Runs ==
    /\ ~wasReset /\ faults = 0
    /\ \A i \in Identities : nCond[i] <= 1

\* C16: in such a run every conditional call that returns, returns true, and
\* once all calls have returned the count has risen by the number of
\* conditional calls plus the number of unconditional increments.
C16_DistinctIdentitiesAllCount ==
    [][C16_Runs' =>
        /\ AllIdle' => get_week_count(week_tree') = C0 + CondCalls' + nInc'
        /\ ret'.by = Conditional => ret' = OkBool(Conditional, TRUE)]_vars

\* A and B were both accepted and some transaction had to be retried
C16_Witness ==
    /\ C16_Runs /\ AllIdle /\ retried
    /\ nCond["A"] = 1 /\ nCond["B"] = 1
    /\ Len(accLog["A"]) = 1 /\ Len(accLog["B"]) = 1
    /\ get_week_count(week_tree) = C0 + 2 + nInc

\* C20: without a reset, a value returned by increment_week is the count its
\* own commit stored and differs from every value increment_week returned
\* before; and when only unconditional increments ran, without storage errors,
\* and all N of them have returned, the values returned are exactly
\* C0+1 .. C0+N.
C20_ReturnsDistinct ==
    [][~wasReset' =>
        /\ (ret'.by = "increment_week" /\ ret'.kind = "u64") =>
              /\ ret'.n = get_week_count(week_tree')
              /\ ret'.n \notin incRets
        /\ (AllIdle' /\ faults' = 0 /\ CondCalls' = 0) =>
              incRets' = (C0 + 1)..(C0 + nInc')]_vars

\* three overlapping unconditional increments, one of them retried, returned
\* C0+1, C0+2 and C0+3
C20_Witness ==
    /\ ~wasReset /\ faults = 0 /\ CondCalls = 0 /\ AllIdle
    /\ retried /\ nInc = 3
    /\ incRets = (C0 + 1)..(C0 + 3)

\* C17: a conditional increment that returns an error from the dedup check or
\* from the transaction (storage error, visit record not UTF-8 or not RFC 3339,
\* counter record not deserializable) returns one of DbError's variants and
\* its failing step leaves the counter record and every visit record as they
\* were.
C17_FailureChangesNothing ==
    [][\A p \in Procs :
          (/\ op[p] = Conditional
           /\ pc[p] \in {"check", "txn", "commit"}
           /\ pc'[p] = "idle"
           /\ ret'.kind = "err")
          => /\ ret'.by = Conditional
             /\ ret'.err \in {"Sled", "Utf8", "DateParse"}
             /\ UNCHANGED store]_vars

\* a call found an unparsable visit record while the store held a positive
\* count with a last click time
C17_Witness ==
    /\ ret = ErrDateParse(Conditional)
    /\ get_week_count(week_tree) >= 1
    /\ get_week_data(week_tree).last_click_time # None
    /\ \E i \in Identities : click_tree[i] # None

\* C18: the stored visit time of an identity only moves forward: a step that
\* replaces a visit record stores a time that is not earlier than the one it
\* replaces.
C18_VisitTimeMonotone ==
    [][\A i \in Identities :
          (click_tree[i] # None /\ click_tree'[i] # None)
          => parse_from_rfc3339(click_tree'[i][1]).utc
                 >= parse_from_rfc3339(click_tree[i][1]).utc]_vars

\* C14: calculate_date_from_weeks(0) returns the instant 1704067200, and for
\* every w in 0..MaxWeeks calculate_date_from_weeks(w) returns the instant
\* 1704067200 + w * 604800.
C14_DateFromWeeks ==
    (date # None /\ \E n \in 0..MaxWeeks : weeks = FromNat(n))
    => /\ weeks = FromNat(0) => date[1] = Value(FALSE, FromNat(1704067200))
       /\ date[1] = Value(FALSE, FromNat(1704067200 + weeks[1] * 604800))

\* calculate_date_from_weeks(1) returned the epoch plus seven days
C14_Witness ==
    /\ weeks = FromNat(1)
    /\ date = Some(Value(FALSE, FromNat(1704067200 + 7 * 24 * 60 * 60)))

\* C15: calculate_date_from_weeks never panics on a u64 argument and never
\* returns an instant before the epoch instant (it saturates instead of
\* wrapping to an earlier instant).
C15_NeverPanicsNorWraps ==
    date # None =>
        /\ ~date[1].panic
        /\ ~date[1].neg
        /\ ~Less(date[1].mag, base_time)

TypeOK ==
    /\ clock \in Times
    /\ ncalls \in 0..MaxCalls
    /\ faults \in 0..MaxFaults
    /\ \A p \in Procs : pc[p] \in {"idle", "check", "txn", "commit", "mark"}
    /\ \A i \in Identities : nCond[i] \in 0..MaxCalls
    /\ resetFresh \in BOOLEAN
    /\ incRets \subseteq 1..(MaxInit + MaxCalls)
    /\ weeks \in DateInputs
    /\ date = None \/ date = Some(calculate_date_from_weeks(weeks))
====
